---- MODULE Spec2Model ----
(***************************************************************************)
(* Two filters of the point-cloud library, modelled as state machines:     *)
(*   - KNNAssignFilter (filters.knnassign): k-nearest-neighbour majority   *)
(*     vote on the Classification dimension;                               *)
(*   - PMFFilter (filters.pmf): progressive morphological ground filter.   *)
(* Points live on a line (X only) for the vote filter and on a small       *)
(* integer grid for the ground filter.                                     *)
(***************************************************************************)
EXTENDS Integers, Sequences, FiniteSets, TLC

VARIABLES
    pc,              \* position of the KNNAssignFilter lifecycle
    m_k,             \* option k
    m_domainSpec,    \* option domain: the texts
    m_domain,        \* parsed (then resolved and sorted) ranges
    m_candidateFile, \* option candidate: "" or a file name
    view,            \* the PointView handed to filter()
    candView,        \* the view loaded from the candidate file
    id,              \* loop variable of filter(): points 0..id-1 are done
    vote,            \* what the last doOne call did
    input,           \* history: the view as it was handed in
    votes,           \* history: doOneNoDomain calls per point
    kdi,             \* the built index: its answer per queried coordinate
    candLoaded,      \* history: the candidate file as loadSet() read it
    loads,           \* history: loadSet() calls of this instance
    runs,            \* history: filter() calls of this instance
    \* PMFFilter
    ppc,               \* position of the PMFFilter lifecycle
    m_cellSize,        \* options, in hundredths
    m_exponential,
    m_ignored,
    m_initialDistance,
    m_lastOnly,
    m_maxDistance,
    m_maxWindowSize,
    m_slope,
    hasReturns,        \* layout has ReturnNumber and NumberOfReturns
    table,             \* the points, shared by all views of the run
    ignoredView,       \* views: sequences of point ids into table
    nonlastView,
    lastView,
    outView,
    rows,
    cols,
    minx,              \* bounds.minx, bounds.miny of lastView
    miny,
    ZImin,             \* the surface, indexed c * rows + r
    groundIdx,
    wsvec,
    htvec,
    j_iter,            \* j, the iteration of the progressive loop
    tableIn,           \* history: the points as handed to run()
    dropped,           \* history: per iteration, the ids it dropped
    ZIraw,             \* history: ZImin as rasterized, before the gap fill
    ZIfill,            \* history: ZImin after the gap fill
    kdQueries,         \* history: number of kdi.knnSearch calls of the gap fill
    mos                \* history: the opened surface mo of each iteration

knnVars == <<pc, m_k, m_domainSpec, m_domain, m_candidateFile, view, candView,
             id, vote, input, votes, kdi, candLoaded, loads, runs>>

pmfArgs == <<m_cellSize, m_exponential, m_initialDistance, m_maxDistance,
             m_maxWindowSize, m_slope, hasReturns, tableIn>>

pmfHist == <<ZIraw, ZIfill, kdQueries, mos>>

pmfVars == <<ppc, pmfArgs, m_ignored, m_lastOnly, table, ignoredView, nonlastView,
             lastView, outView, rows, cols, minx, miny, ZImin, groundIdx, wsvec,
             htvec, j_iter, dropped, pmfHist>>

vars == <<knnVars, pmfVars>>

-----------------------------------------------------------------------------
(* Bounds of the model *)

MaxView == 2
MaxCand == 4
MaxK == 4

(* Classification codes that occur in the point sets *)
Cls == {1, 5, 7}
(* X coordinates of the points *)
Pos == {0, 1}

Min(a, b) == IF a < b THEN a ELSE b
Abs(a) == IF a < 0 THEN -a ELSE a

PointKinds == [X : Pos, Classification : Cls]

RECURSIVE SeqsUpTo(_, _)
SeqsUpTo(S, n) ==
    IF n = 0 THEN {<<>>}
    ELSE LET shorter == SeqsUpTo(S, n - 1)
         IN shorter \cup {Append(s, e) : s \in {t \in shorter : Len(t) = n - 1}, e \in S}

(* a candidate file is enumerated up to the order of its points: the *)
(* filter reads it only through the index and by point id            *)
PointLeq(p, q) ==
    \/ p.X < q.X
    \/ p.X = q.X /\ p.Classification <= q.Classification

Views == SeqsUpTo(PointKinds, MaxView)

(* with a candidate file the points of the view are voted on one by one *)
(* against the file: the view holds one point, the file up to MaxCand   *)
OnePointViews == {<<q>> : q \in PointKinds}

CandFiles ==
    {c \in SeqsUpTo(PointKinds, MaxCand) :
        \A i \in 1..(Len(c) - 1) : PointLeq(c[i], c[i + 1])}

-----------------------------------------------------------------------------
(* Layout and DimRange *)

DimUnknown == 0

findDim(name) ==
    CASE name = "X" -> 1
      [] name = "Classification" -> 2
      [] OTHER -> DimUnknown

(* a DimRange option that was not given: no name, so no dimension *)
NoRange == [m_name |-> "", m_id |-> DimUnknown, lb |-> 0, ub |-> 0, ub_inclusive |-> TRUE]

getFieldAs(point, dim) ==
    CASE dim = 1 -> point.X
      [] dim = 2 -> point.Classification

(* DimRange::parse: the texts the model draws from, with their meaning;  *)
(* ub_inclusive distinguishes "]" from ")"                               *)
DomainTexts == {"Classification[5,6)", "Classification[5,7]", "X[0,0]", "Bogus[0,1]", "###"}

ParseFails(text) == text = "###"

Parse(text) ==
    CASE text = "Classification[5,6)" ->
            [m_name |-> "Classification", m_id |-> DimUnknown, lb |-> 5, ub |-> 6, ub_inclusive |-> FALSE]
      [] text = "Classification[5,7]" ->
            [m_name |-> "Classification", m_id |-> DimUnknown, lb |-> 5, ub |-> 7, ub_inclusive |-> TRUE]
      [] text = "X[0,0]" ->
            [m_name |-> "X", m_id |-> DimUnknown, lb |-> 0, ub |-> 0, ub_inclusive |-> TRUE]
      [] text = "Classification[7,7]" ->
            [m_name |-> "Classification", m_id |-> DimUnknown, lb |-> 7, ub |-> 7, ub_inclusive |-> TRUE]
      [] text = "" -> NoRange
      [] text = "Bogus[0,1]" ->
            [m_name |-> "Bogus", m_id |-> DimUnknown, lb |-> 0, ub |-> 1, ub_inclusive |-> TRUE]

valuePasses(r, v) ==
    /\ r.lb <= v
    /\ IF r.ub_inclusive THEN v <= r.ub ELSE v < r.ub

(* the orders std::sort may leave the ranges in: sorted by dimension *)
SortedOrders(d) ==
    {s \in [1..Len(d) -> 1..Len(d)] :
        /\ \A i, j \in 1..Len(d) : i # j => s[i] # s[j]
        /\ \A i \in 1..(Len(d) - 1) : d[s[i]].m_id <= d[s[i + 1]].m_id}

DomainSpecs ==
    { <<>>,
      <<"Classification[5,6)", "X[0,0]">>,
      <<"Classification[5,7]", "Classification[5,6)">>,
      <<"###">>,
      <<"Classification[5,6)", "###">>,
      <<"Bogus[0,1]">>,
      <<"Classification[5,6)", "Bogus[0,1]">> }

-----------------------------------------------------------------------------
(* KD3Index over the reference view: the answers neighbors(point, k) may   *)
(* give: min(k, n) point ids, none farther than a point left out.  Ties in *)
(* distance are broken by the index, in any way but the same way each time *)
(* the same coordinate is queried                                          *)

KNearestSets(ref, x, k) ==
    {S \in SUBSET (1..Len(ref)) :
        /\ Cardinality(S) = Min(k, Len(ref))
        /\ \A i \in S : \A j \in (1..Len(ref)) \ S :
              Abs(ref[i].X - x) <= Abs(ref[j].X - x)}

(* the indexes build() may produce over ref, as answers to the queries *)
(* the points of v will make                                           *)
Indexes(ref, v, k) ==
    {f \in [{v[p].X : p \in 1..Len(v)} -> SUBSET (1..Len(ref))] :
        \A x \in DOMAIN f : f[x] \in KNearestSets(ref, x, k)}

-----------------------------------------------------------------------------
(* KNNAssignFilter *)

(* the dimension voted on and written *)
m_dim_X == findDim("X")
m_dim == findDim("Classification")

setField(v, p, dim, val) ==
    CASE dim = 1 -> [v EXCEPT ![p].X = val]
      [] dim = 2 -> [v EXCEPT ![p].Classification = val]

KInvalid_negative(k) == k < 0
KInvalid(k) == k < 1

(* twice the threshold iSrc.size()/2.0, to stay in the integers *)
Thresh2_oneLess(size) == size - 1
Thresh2(size) == size

(* std::map<double, unsigned> counts after the tally loop *)
Counts(ref, iSrc) ==
    [v \in {getFieldAs(ref[i], m_dim) : i \in iSrc} |->
        Cardinality({i \in iSrc : getFieldAs(ref[i], m_dim) = v})]

(* std::max_element over the map in key order: the first entry that no *)
(* later entry beats, i.e. the smallest key among the highest counts   *)
RECURSIVE MaxElementFrom(_, _, _)
MaxElementFrom(counts, largest, rest) ==
    IF rest = {} THEN largest
    ELSE LET first == CHOOSE v \in rest : \A u \in rest : v <= u
         IN MaxElementFrom(counts,
                           IF counts[largest] < counts[first] THEN first ELSE largest,
                           rest \ {first})

MaxElement(counts) ==
    LET begin == CHOOSE v \in DOMAIN counts : \A u \in DOMAIN counts : v <= u
        key == MaxElementFrom(counts, begin, (DOMAIN counts) \ {begin})
    IN [first |-> key, second |-> counts[key]]

ShouldAssign_atLeast(second, size, oldclass, newclass) ==
    2 * second >= Thresh2(size) /\ oldclass # newclass
ShouldAssign(second, size, oldclass, newclass) ==
    2 * second > Thresh2(size) /\ oldclass # newclass

(* doOneNoDomain with a non-empty answer iSrc of the index; ref is the *)
(* view the neighbours are read from (v itself without a candidate)    *)
doOneNoDomain(v, ref, p, iSrc) ==
    LET pr == MaxElement(Counts(ref, iSrc))
        oldclass == getFieldAs(v[p], m_dim)
        newclass == pr.first
    IN IF ShouldAssign(pr.second, Cardinality(iSrc), oldclass, newclass)
       THEN setField(v, p, m_dim, newclass)
       ELSE v

(* how often doOne calls doOneNoDomain for a point *)
DoOneCalls_noBreak(point, domain) ==
    (IF domain = <<>> THEN 1 ELSE 0)
    + Cardinality({i \in 1..Len(domain) :
                      valuePasses(domain[i], getFieldAs(point, domain[i].m_id))})
DoOneCalls(point, domain) ==
    (IF domain = <<>> THEN 1 ELSE 0)
    + (IF \E i \in 1..Len(domain) :
             valuePasses(domain[i], getFieldAs(point, domain[i].m_id))
       THEN 1 ELSE 0)

(* doOne on point p whose query the index answers with iSrc *)
RECURSIVE doOneTimes(_, _, _, _, _, _)
doOneTimes(v, cv, self, p, iSrc, n) ==
    IF n = 0 THEN v
    ELSE doOneTimes(doOneNoDomain(v, IF self THEN v ELSE cv, p, iSrc),
                    cv, self, p, iSrc, n - 1)

doOne(v, cv, self, p, iSrc, domain) ==
    doOneTimes(v, cv, self, p, iSrc, DoOneCalls(v[p], domain))

(* the loop of filter(), visiting the points in the given order; the *)
(* code visits them by ascending id                                  *)
RECURSIVE FilterInOrder(_, _, _, _, _, _)
FilterInOrder(v, cv, self, order, index, domain) ==
    IF order = <<>> THEN v
    ELSE FilterInOrder(doOne(v, cv, self, Head(order), index[v[Head(order)].X], domain),
                       cv, self, Tail(order), index, domain)

NoVote == [voted |-> FALSE, ub |-> FALSE, point |-> 0, iSrc |-> {},
           first |-> 0, second |-> 0, oldclass |-> 0]

(* values a read through the end iterator of an empty map may produce *)
UBValues == Cls \cup {0}

(* the ground filter is not part of a run of the vote filter *)
PMFIdle ==
    /\ ppc = "idle"
    /\ m_cellSize = 0 /\ m_exponential = FALSE /\ m_ignored = <<>>
    /\ m_initialDistance = 0 /\ m_lastOnly = FALSE /\ m_maxDistance = 0
    /\ m_maxWindowSize = 0 /\ m_slope = 0 /\ hasReturns = FALSE
    /\ table = <<>> /\ ignoredView = <<>> /\ nonlastView = <<>> /\ lastView = <<>>
    /\ outView = <<>> /\ rows = 0 /\ cols = 0 /\ minx = 0 /\ miny = 0
    /\ ZImin = <<>> /\ groundIdx = <<>> /\ wsvec = <<>> /\ htvec = <<>> /\ j_iter = 0
    /\ tableIn = <<>> /\ dropped = <<>>
    /\ ZIraw = <<>> /\ ZIfill = <<>> /\ kdQueries = 0 /\ mos = <<>>

InitKNN ==
    /\ PMFIdle
    /\ pc = "constructed"
    /\ m_k \in 0..MaxK
    /\ m_domainSpec \in DomainSpecs
    /\ m_domain = <<>>
    /\ m_candidateFile \in {"", "candidate.las"}
    /\ view \in IF m_candidateFile = "" THEN Views ELSE OnePointViews
    /\ candView = <<>>
    /\ id = 0
    /\ vote = NoVote
    /\ input = view
    /\ votes = [p \in 1..Len(view) |-> 0]
    /\ kdi = <<>>
    /\ candLoaded = <<>>
    /\ loads = 0 /\ runs = 0

initialize ==
    /\ UNCHANGED pmfVars
    /\ pc = "constructed"
    /\ LET bad == {i \in 1..Len(m_domainSpec) : ParseFails(m_domainSpec[i])}
           stop == IF bad = {} THEN Len(m_domainSpec)
                   ELSE (CHOOSE i \in bad : \A j \in bad : i <= j) - 1
       IN /\ m_domain' = [i \in 1..stop |-> Parse(m_domainSpec[i])]
          /\ pc' = IF bad # {} \/ KInvalid(m_k) THEN "error" ELSE "initialized"
    /\ UNCHANGED <<m_k, m_domainSpec, m_candidateFile, view, candView, id, vote,
                   input, votes, kdi, candLoaded, loads, runs>>

prepared ==
    /\ UNCHANGED pmfVars
    /\ pc = "initialized"
    /\ LET unknown == {i \in 1..Len(m_domain) : findDim(m_domain[i].m_name) = DimUnknown}
           stop == IF unknown = {} THEN Len(m_domain)
                   ELSE CHOOSE i \in unknown : \A j \in unknown : i <= j
           resolved == [i \in 1..Len(m_domain) |->
                           IF i <= stop
                           THEN [m_domain[i] EXCEPT !.m_id = findDim(m_domain[i].m_name)]
                           ELSE m_domain[i]]
       IN IF unknown # {}
          THEN /\ m_domain' = resolved
               /\ pc' = "error"
          ELSE /\ \E s \in SortedOrders(resolved) :
                     m_domain' = [i \in 1..Len(resolved) |-> resolved[s[i]]]
               /\ pc' = "prepared"
    /\ UNCHANGED <<m_k, m_domainSpec, m_candidateFile, view, candView, id, vote,
                   input, votes, kdi, candLoaded, loads, runs>>

(* filter() up to the loop: the candidate file, if any, is read and the *)
(* index is built                                                       *)
filterBegin ==
    /\ UNCHANGED pmfVars
    /\ pc = "prepared"
    /\ IF m_candidateFile = ""
       THEN /\ kdi' \in Indexes(view, view, m_k)
            /\ UNCHANGED <<candView, candLoaded, loads>>
       ELSE \E c \in CandFiles :
               /\ candView' = c
               /\ candLoaded' = c
               /\ loads' = loads + 1
               /\ kdi' \in Indexes(c, view, m_k)
    /\ runs' = runs + 1
    /\ id' = 0
    /\ pc' = "filtering"
    /\ UNCHANGED <<m_k, m_domainSpec, m_domain, m_candidateFile, view, vote,
                   input, votes>>

(* one iteration of the loop of filter(): doOne on point id *)
filterStep ==
    /\ UNCHANGED pmfVars
    /\ pc = "filtering"
    /\ id < Len(view)
    /\ LET p == id + 1
           self == m_candidateFile = ""
           ref == IF self THEN view ELSE candView
           calls == DoOneCalls(view[p], m_domain)
       IN IF calls = 0
          THEN /\ vote' = NoVote
               /\ id' = id + 1
               /\ UNCHANGED <<pc, view, votes>>
          ELSE IF kdi[view[p].X] = {}
          THEN \* counts is empty: *max_element(...) reads through end()
               \E crash \in BOOLEAN, first \in UBValues, second \in 0..1 :
                  /\ vote' = [voted |-> TRUE, ub |-> TRUE, point |-> p, iSrc |-> {},
                              first |-> first, second |-> second,
                              oldclass |-> getFieldAs(view[p], m_dim)]
                  /\ votes' = [votes EXCEPT ![p] = @ + calls]
                  /\ IF crash
                     THEN /\ pc' = "crashed"
                          /\ UNCHANGED <<view, id>>
                     ELSE /\ view' = IF ShouldAssign(second, 0, getFieldAs(view[p], m_dim), first)
                                     THEN setField(view, p, m_dim, first)
                                     ELSE view
                          /\ id' = id + 1
                          /\ pc' = pc
          ELSE LET iSrc == kdi[view[p].X]
                   pr == MaxElement(Counts(ref, iSrc))
               IN /\ vote' = [voted |-> TRUE, ub |-> FALSE, point |-> p, iSrc |-> iSrc,
                              first |-> pr.first, second |-> pr.second,
                              oldclass |-> getFieldAs(view[p], m_dim)]
                  /\ view' = doOne(view, candView, self, p, iSrc, m_domain)
                  /\ votes' = [votes EXCEPT ![p] = @ + calls]
                  /\ id' = id + 1
                  /\ pc' = pc
    /\ UNCHANGED <<m_k, m_domainSpec, m_domain, m_candidateFile, candView, input, kdi,
                   candLoaded, loads, runs>>

filterEnd ==
    /\ UNCHANGED pmfVars
    /\ pc = "filtering"
    /\ id = Len(view)
    /\ pc' = "done"
    /\ UNCHANGED <<m_k, m_domainSpec, m_domain, m_candidateFile, view, candView,
                   id, vote, input, votes, kdi, candLoaded, loads, runs>>

NextKNN == initialize \/ prepared \/ filterBegin \/ filterStep \/ filterEnd

SpecKNN == InitKNN /\ [][NextKNN]_vars

(* the same filter on views of up to OrderView points and no candidate  *)
(* file, and on one point with a candidate file: every point eligible   *)
OrderView == 4

InitKNNOrder ==
    /\ PMFIdle
    /\ pc = "constructed"
    /\ m_k \in 1..MaxK
    /\ m_domainSpec = <<>>
    /\ m_domain = <<>>
    /\ m_candidateFile \in {"", "candidate.las"}
    /\ view \in IF m_candidateFile = "" THEN SeqsUpTo(PointKinds, OrderView)
                ELSE OnePointViews
    /\ candView = <<>>
    /\ id = 0
    /\ vote = NoVote
    /\ input = view
    /\ votes = [p \in 1..Len(view) |-> 0]
    /\ kdi = <<>>
    /\ candLoaded = <<>>
    /\ loads = 0 /\ runs = 0

SpecKNNOrder == InitKNNOrder /\ [][NextKNN]_vars

(* the same instance run on successive inputs: the framework calls *)
(* filter() once per input view                                    *)
MaxRuns == 2

InitKNNRuns ==
    /\ PMFIdle
    /\ pc = "constructed"
    /\ m_k \in 0..1
    /\ m_domainSpec \in {<<>>, <<"Classification[5,7]">>, <<"###">>, <<"Bogus[0,1]">>}
    /\ m_domain = <<>>
    /\ m_candidateFile \in {"", "candidate.las"}
    /\ view \in OnePointViews
    /\ candView = <<>>
    /\ id = 0
    /\ vote = NoVote
    /\ input = view
    /\ votes = [p \in 1..Len(view) |-> 0]
    /\ kdi = <<>>
    /\ candLoaded = <<>>
    /\ loads = 0 /\ runs = 0

filterAgain ==
    /\ UNCHANGED pmfVars
    /\ pc = "done"
    /\ runs < MaxRuns
    /\ view' \in OnePointViews
    /\ input' = view'
    /\ votes' = [p \in 1..Len(view') |-> 0]
    /\ vote' = NoVote
    /\ id' = 0
    \* the locals of the previous call are gone
    /\ candView' = <<>>
    /\ kdi' = <<>>
    /\ candLoaded' = <<>>
    /\ pc' = "prepared"
    /\ UNCHANGED <<m_k, m_domainSpec, m_domain, m_candidateFile, loads, runs>>

NextKNNRuns == NextKNN \/ filterAgain

SpecKNNRuns == InitKNNRuns /\ [][NextKNNRuns]_vars

-----------------------------------------------------------------------------
(* Properties of KNNAssignFilter *)

(* the view the neighbours of the last vote were read from *)
VoteRef ==
    IF m_candidateFile = ""
    THEN [view EXCEPT ![vote.point].Classification = vote.oldclass]
    ELSE candView

(* how many of the neighbours of the last vote carry value v *)
Tally(v) == Cardinality({i \in vote.iSrc : VoteRef[i].Classification = v})

(* the values held by more than half of n *)
Majority(n) == {v \in Cls : 2 * Tally(v) > n}

Reassigned(maj) ==
    IF \E w \in maj : w # vote.oldclass
    THEN view[vote.point].Classification \in maj
    ELSE view[vote.point].Classification = vote.oldclass

Perms(n) == {s \in [1..n -> 1..n] : \A i, j \in 1..n : i # j => s[i] # s[j]}

(* C2: after filter() every point holds the same value whatever the *)
(* order in which the points were processed                         *)
C2_OrderIndependent ==
    (pc = "done" /\ \A x \in DOMAIN kdi : kdi[x] # {}) =>
        \A order \in Perms(Len(input)) :
            FilterInOrder(input, candView, m_candidateFile = "", order, kdi, m_domain)
                = view

FieldByName(point, name) ==
    IF name = "X" THEN point.X ELSE point.Classification

PassesSome(point) ==
    \E i \in 1..Len(m_domainSpec) :
        LET r == Parse(m_domainSpec[i])
        IN valuePasses(r, FieldByName(point, r.m_name))

(* C3: with a domain configured, a point that passes no range is never *)
(* voted on nor modified, and a processed point that passes a range    *)
(* has been voted on exactly once                                      *)
C3_DomainRestriction ==
    (m_domainSpec # <<>> /\ pc \in {"filtering", "done", "crashed"}) =>
        \A p \in 1..Len(view) :
            /\ ~PassesSome(input[p]) => (view[p] = input[p] /\ votes[p] = 0)
            /\ (PassesSome(input[p]) /\ p <= id) => votes[p] = 1

(* a point passing two ranges was voted on once and reassigned, while *)
(* a point with Classification 1 outside the domain was left alone    *)
C3_Witness ==
    /\ pc = "done"
    /\ m_domainSpec = <<"Classification[5,7]", "Classification[5,6)">>
    /\ \E p, q \in 1..Len(view) :
          /\ input[p].Classification = 5 /\ votes[p] = 1 /\ view[p] # input[p]
          /\ input[q].Classification = 1 /\ votes[q] = 0 /\ view[q] = input[q]

TopTie ==
    \E v, u \in Cls :
        /\ v # u
        /\ Tally(v) = Tally(u)
        /\ Tally(v) > 0
        /\ \A w \in Cls : Tally(w) <= Tally(v)

(* C4: when two or more values tie for the highest count, the point *)
(* keeps its value                                                  *)
C4_TieNoReassign ==
    (vote.voted /\ ~vote.ub /\ TopTie) =>
        view[vote.point].Classification = vote.oldclass

(* k = 4, four neighbours split 2/2 between two values, neither of *)
(* them the point's own                                            *)
C4_Witness ==
    /\ vote.voted /\ ~vote.ub
    /\ m_k = 4
    /\ Cardinality(vote.iSrc) = 4
    /\ \E v, u \in Cls \ {vote.oldclass} : v # u /\ Tally(v) = 2 /\ Tally(u) = 2
    /\ view[vote.point].Classification = vote.oldclass

BadText == \E i \in 1..Len(m_domainSpec) : m_domainSpec[i] = "###"
BadName == \E i \in 1..Len(m_domainSpec) : m_domainSpec[i] = "Bogus[0,1]"

(* C6: with an unparsable domain text or k < 1 the filter goes from  *)
(* construction to the error of initialize(), with an unknown domain *)
(* dimension to the error of prepared() at the latest; filter() is   *)
(* not entered and no point has been changed or voted on             *)
C6_ConfigFailureAtomic ==
    /\ (BadText \/ m_k < 1) => pc \in {"constructed", "error"}
    /\ BadName => pc \in {"constructed", "initialized", "error"}
    /\ (BadText \/ m_k < 1 \/ BadName) =>
          /\ view = input
          /\ id = 0
          /\ \A p \in 1..Len(view) : votes[p] = 0
          /\ kdi = <<>>

(* k = 0 with a well-formed domain was refused, the points untouched *)
C6_Witness ==
    /\ pc = "error"
    /\ m_k < 1
    /\ ~BadText /\ ~BadName
    /\ Len(view) > 0
    /\ view = input

-----------------------------------------------------------------------------
(* PMFFilter.  Coordinates, elevations and the options are fixed-point    *)
(* numbers in hundredths: 100 is 1.0.  A height threshold is kept as      *)
(* slope * (ws - ws') * cell_size + initial_distance without rounding, in *)
(* units of Unit^-3.                                                      *)

MaxPts == 2
MaxIters == 8
GridSide == 3

DefaultCellSize == 100
DefaultInitialDistance == 15
DefaultMaxDistance == 250
DefaultMaxWindowSize == 3300
DefaultSlope == 100

Unit == DefaultCellSize

ClassUnclassified == 1
ClassGround == 2

(* std::numeric_limits<double>::quiet_NaN(): below every elevation; the *)
(* comparisons never read it as a number                                *)
NaN == -1

isnan(z) == z = NaN

TruncDiv(a, b) ==
    LET q == Abs(a) \div Abs(b)
    IN IF (a < 0) # (b < 0) THEN -q ELSE q

FloorDiv(a, b) ==
    IF b > 0 THEN a \div b ELSE (-a) \div (-b)

(* floor() of a fixed-point number *)
floor(a) == (a \div Unit) * Unit

RECURSIVE Pow2(_)
Pow2(n) == IF n = 0 THEN 1 ELSE 2 * Pow2(n - 1)

MinOf(S) == CHOOSE m \in S : \A n \in S : m <= n
MaxOf(S) == CHOOSE m \in S : \A n \in S : m >= n

Range(seq) == {seq[i] : i \in 1..Len(seq)}

SelectIds(seq, keep(_)) == SelectSeq(seq, keep)

PMFPointKinds ==
    {[X |-> x, Y |-> 0, Z |-> z, Classification |-> a[1], ReturnNumber |-> 1,
      NumberOfReturns |-> a[2]] :
        x \in {0, 200}, z \in {0, 100, 1000}, a \in {<<5, 1>>, <<5, 2>>, <<7, 1>>}}

Defaults ==
    [cell_size |-> DefaultCellSize, exponential |-> TRUE, ignore |-> "",
     initial_distance |-> DefaultInitialDistance, last |-> TRUE,
     max_distance |-> DefaultMaxDistance, max_window_size |-> DefaultMaxWindowSize,
     slope |-> DefaultSlope, returns |-> TRUE]

PMFConfigs ==
    { Defaults,
      [Defaults EXCEPT !.exponential = FALSE, !.max_window_size = 900],
      [Defaults EXCEPT !.ignore = "Classification[7,7]"],
      [Defaults EXCEPT !.last = FALSE],
      [Defaults EXCEPT !.returns = FALSE, !.max_window_size = 500],
      [Defaults EXCEPT !.cell_size = 50, !.max_window_size = 400],
      [Defaults EXCEPT !.max_window_size = 0],
      [Defaults EXCEPT !.slope = -100, !.max_window_size = 500],
      [Defaults EXCEPT !.cell_size = 0],
      [Defaults EXCEPT !.cell_size = -100] }

(* a plane of points on the cell corners of a w x h grid of unit cells,  *)
(* taken column by column: all at elevation `base` except the point of  *)
(* cell `raised`, 10 units above; the cell `hole` has no point (-1: no  *)
(* such cell)                                                           *)
RaisedBy == 1000

GridTable(w, h, hole, raised, base) ==
    LET cells == SelectSeq([n \in 1..(w * h) |-> n - 1], LAMBDA n : n # hole)
    IN [i \in 1..Len(cells) |->
          [X |-> (cells[i] \div h) * Unit, Y |-> (cells[i] % h) * Unit,
           Z |-> IF cells[i] = raised THEN base + RaisedBy ELSE base,
           Classification |-> 5, ReturnNumber |-> 1, NumberOfReturns |-> 1]]

FlatTables ==
    {GridTable(w, h, hole, -1, base) :
        w \in 1..GridSide, h \in 1..GridSide, hole \in -1..(GridSide * GridSide - 1),
        base \in {0, 100}}

OutlierTables ==
    {GridTable(w, h, hole, raised, 0) :
        w \in 1..GridSide, h \in 1..GridSide, hole \in -1..(GridSide * GridSide - 1),
        raised \in 0..(GridSide * GridSide - 1)}

(* points off the cell corners, for a cell size of 0.5 *)
FractionalConfigs == {[Defaults EXCEPT !.cell_size = 50, !.max_window_size = 400]}

FractionalTables ==
    SeqsUpTo({[X |-> x, Y |-> 0, Z |-> z, Classification |-> 5, ReturnNumber |-> 1,
               NumberOfReturns |-> 1] : x \in {0, 50, 150}, z \in {0, 1000}}, MaxPts)

(* Segmentation::ignoreDimRange *)
IgnoredIds(t, range) ==
    SelectSeq([i \in 1..Len(t) |-> i],
              LAMBDA i : valuePasses(range, getFieldAs(t[i], range.m_id)))

KeptIds(t, range) ==
    SelectSeq([i \in 1..Len(t) |-> i],
              LAMBDA i : ~valuePasses(range, getFieldAs(t[i], range.m_id)))

(* Segmentation::segmentLastReturns *)
IsLastReturn(point) == point.ReturnNumber = point.NumberOfReturns

ClassifyKept_skip(t, kept) == t

(* lines 117-118: every kept point gets Classification 1 *)
ClassifyKept(t, kept) ==
    [i \in 1..Len(t) |->
        IF i \in Range(kept) THEN [t[i] EXCEPT !.Classification = ClassUnclassified]
        ELSE t[i]]

(* lines 146-147: the double (extent / cell_size) + 1, truncated to size_t *)
GridSize(extent, cs) == TruncDiv(extent + cs, cs)

(* lines 160-161: static_cast<int>(floor(x - bounds.minx) / m_cellSize) *)
BinCell(x, lo, cs) == TruncDiv(floor(x - lo), cs)

(* lines 269-270: static_cast<int>(floor((x - bounds.minx) / m_cellSize)) *)
LookupCell(x, lo, cs) == FloorDiv(x - lo, cs)

(* lines 155-165: the minimum Z per cell, the points taken in order *)
RECURSIVE Rasterize(_, _, _, _, _, _, _)
Rasterize(zi, t, ids, lox, loy, nrows, cs) ==
    IF ids = <<>> THEN zi
    ELSE LET pt == t[Head(ids)]
             idx == BinCell(pt.X, lox, cs) * nrows + BinCell(pt.Y, loy, cs)
         IN Rasterize(IF pt.Z < zi[idx] \/ isnan(zi[idx])
                      THEN [zi EXCEPT ![idx] = pt.Z] ELSE zi,
                      t, Tail(ids), lox, loy, nrows, cs)

(* lines 167-210: every NaN cell takes the elevation of a populated cell *)
(* whose centre is nearest; the index breaks ties                        *)
CellDist2(a, b, nrows) ==
    LET dc == (a \div nrows) - (b \div nrows)
        dr == (a % nrows) - (b % nrows)
    IN dc * dc + dr * dr

GapFills_none(zi, nrows) == {zi}

(* lines 193-207: knnSearch is called once per NaN cell *)
KnnSearches(zi) == Cardinality({i \in DOMAIN zi : isnan(zi[i])})

GapFills(zi, nrows) ==
    LET full == {i \in DOMAIN zi : ~isnan(zi[i])}
        empty == DOMAIN zi \ full
        Nearest(i) ==
            {n \in full : \A m \in full : CellDist2(i, n, nrows) <= CellDist2(i, m, nrows)}
        neighbors == {f \in [empty -> full] : \A i \in empty : f[i] \in Nearest(i)}
    IN {[i \in DOMAIN zi |-> IF i \in full THEN zi[i] ELSE zi[f[i]]] : f \in neighbors}

(* eigen::erodeDiamond / dilateDiamond: the minimum (maximum) over the  *)
(* cells of the grid within `iterations` steps along rows and columns   *)
Diamond(i, nrows, ncols, iterations) ==
    {n \in 0..(nrows * ncols - 1) :
        Abs((n \div nrows) - (i \div nrows)) + Abs((n % nrows) - (i % nrows))
            <= IF iterations > 0 THEN iterations ELSE 0}

erodeDiamond(data, nrows, ncols, iterations) ==
    [i \in DOMAIN data |-> MinOf({data[n] : n \in Diamond(i, nrows, ncols, iterations)})]

dilateDiamond(data, nrows, ncols, iterations) ==
    [i \in DOMAIN data |-> MaxOf({data[n] : n \in Diamond(i, nrows, ncols, iterations)})]

(* lines 228-231 *)
WindowSize(exponential, cs, iter) ==
    IF exponential THEN cs * (2 * Pow2(iter) + 1)
    ELSE cs * (2 * (iter + 1) * 2 + 1)

HeightThreshold_noInitial(iter, ws, prev, slope, cs, initial, maxd) ==
    LET ht == IF iter = 0 THEN 0 ELSE slope * (ws - prev) * cs
    IN IF ht > maxd * Unit * Unit THEN maxd * Unit * Unit ELSE ht

(* lines 234-242 *)
HeightThreshold(iter, ws, prev, slope, cs, initial, maxd) ==
    LET ht == IF iter = 0 THEN initial * Unit * Unit
              ELSE slope * (ws - prev) * cs + initial * Unit * Unit
    IN IF ht > maxd * Unit * Unit THEN maxd * Unit * Unit ELSE ht

(* line 257: int iters = 0.5 * (wsvec[j] - 1) *)
Iters_none(ws) == 0
Iters(ws) == TruncDiv(ws - Unit, 2 * Unit)

(* line 263: the points the iteration tests *)
Candidates_all(ground, all) == all
Candidates(ground, all) == ground

(* line 272 *)
BelowThreshold(z, surface, ht) == (z - surface) * Unit * Unit < ht

PMFInit(configs, tables) ==
    /\ ppc = "constructed"
    /\ \E c \in configs :
          /\ m_cellSize = c.cell_size
          /\ m_exponential = c.exponential
          /\ m_ignored = Parse(c.ignore)
          /\ m_initialDistance = c.initial_distance
          /\ m_lastOnly = c.last
          /\ m_maxDistance = c.max_distance
          /\ m_maxWindowSize = c.max_window_size
          /\ m_slope = c.slope
          /\ hasReturns = c.returns
    /\ table \in tables
    /\ tableIn = table
    /\ ignoredView = <<>> /\ nonlastView = <<>> /\ lastView = <<>> /\ outView = <<>>
    /\ rows = 0 /\ cols = 0 /\ minx = 0 /\ miny = 0
    /\ ZImin = <<>> /\ groundIdx = <<>> /\ wsvec = <<>> /\ htvec = <<>> /\ j_iter = 0
    /\ dropped = <<>>
    /\ ZIraw = <<>> /\ ZIfill = <<>> /\ kdQueries = 0 /\ mos = <<>>

(* the vote filter is not part of a run of the ground filter *)
KNNIdle ==
    /\ pc = "idle" /\ m_k = 0 /\ m_domainSpec = <<>> /\ m_domain = <<>>
    /\ m_candidateFile = "" /\ view = <<>> /\ candView = <<>> /\ id = 0
    /\ vote = NoVote /\ input = <<>> /\ votes = <<>> /\ kdi = <<>>
    /\ candLoaded = <<>> /\ loads = 0 /\ runs = 0

InitPMF ==
    /\ KNNIdle
    /\ \/ PMFInit(PMFConfigs, SeqsUpTo(PMFPointKinds, MaxPts))
       \/ PMFInit({Defaults}, FlatTables \cup OutlierTables)
       \/ PMFInit(FractionalConfigs, FractionalTables)

pmfPrepared ==
    /\ UNCHANGED knnVars
    /\ ppc = "constructed"
    /\ m_ignored' = [m_ignored EXCEPT !.m_id = findDim(m_ignored.m_name)]
    /\ m_lastOnly' = (m_lastOnly /\ hasReturns)
    /\ ppc' = "prepared"
    /\ UNCHANGED <<pmfArgs, table, ignoredView, nonlastView, lastView, outView, rows,
                   cols, minx, miny, ZImin, groundIdx, wsvec, htvec, j_iter, dropped,
                   pmfHist>>

(* run() on an empty input: no output view *)
pmfRunEmpty ==
    /\ UNCHANGED knnVars
    /\ ppc = "prepared"
    /\ Len(table) = 0
    /\ ppc' = "done"
    /\ UNCHANGED <<pmfArgs, m_ignored, m_lastOnly, table, ignoredView, nonlastView,
                   lastView, outView, rows, cols, minx, miny, ZImin, groundIdx, wsvec,
                   htvec, j_iter, dropped, pmfHist>>

(* run() up to the scale sequence of processGround(): the views, the *)
(* grid, the minimum surface and its gap fill                        *)
pmfRun ==
    /\ UNCHANGED knnVars
    /\ ppc = "prepared"
    /\ Len(table) > 0
    /\ LET all == [i \in 1..Len(table) |-> i]
           ignored == IF m_ignored.m_id = DimUnknown THEN <<>>
                      ELSE IgnoredIds(table, m_ignored)
           kept == IF m_ignored.m_id = DimUnknown THEN all
                   ELSE KeptIds(table, m_ignored)
           t == ClassifyKept(table, kept)
           last == IF m_lastOnly THEN SelectSeq(kept, LAMBDA i : IsLastReturn(t[i]))
                   ELSE kept
           nonlast == IF m_lastOnly THEN SelectSeq(kept, LAMBDA i : ~IsLastReturn(t[i]))
                      ELSE <<>>
           xs == {t[i].X : i \in Range(last)}
           ys == {t[i].Y : i \in Range(last)}
           lox == MinOf(xs)
           loy == MinOf(ys)
           ncols == GridSize(MaxOf(xs) - lox, m_cellSize)
           nrows == GridSize(MaxOf(ys) - loy, m_cellSize)
           cells == 0..(nrows * ncols - 1)
           \* an empty view has no bounds, a cell size of 0 divides by zero, a
           \* negative size does not convert to size_t, a cell outside the
           \* surface is read and written out of bounds
           undefined ==
               \/ last = <<>>
               \/ m_cellSize = 0
               \/ ncols < 0 \/ nrows < 0
               \/ \E i \in Range(last) :
                     \/ BinCell(t[i].X, lox, m_cellSize) < 0
                     \/ BinCell(t[i].Y, loy, m_cellSize) < 0
                     \/ BinCell(t[i].X, lox, m_cellSize) * nrows
                          + BinCell(t[i].Y, loy, m_cellSize) \notin cells
       IN /\ table' = t
          /\ ignoredView' = ignored
          /\ nonlastView' = nonlast
          /\ lastView' = last
          /\ IF undefined
             THEN /\ ppc' \in {"crashed", "hung"}
                  /\ UNCHANGED <<rows, cols, minx, miny, ZImin, groundIdx, pmfHist>>
             ELSE /\ rows' = nrows
                  /\ cols' = ncols
                  /\ minx' = lox
                  /\ miny' = loy
                  /\ ZIraw' = Rasterize([i \in cells |-> NaN], t, last, lox, loy,
                                      nrows, m_cellSize)
                  /\ ZImin' \in GapFills(ZIraw', nrows)
                  /\ ZIfill' = ZImin'
                  /\ kdQueries' = KnnSearches(ZIraw')
                  /\ UNCHANGED mos
                  /\ groundIdx' = last
                  /\ ppc' = IF 0 < m_maxWindowSize THEN "precompute" ELSE "open"
    /\ UNCHANGED <<pmfArgs, m_ignored, m_lastOnly, outView, wsvec, htvec, j_iter, dropped>>

(* one iteration of the loop that computes window sizes and thresholds *)
pmfPrecompute ==
    /\ UNCHANGED knnVars
    /\ ppc = "precompute"
    /\ Len(wsvec) < MaxIters
    /\ LET iter == Len(wsvec)
           ws == WindowSize(m_exponential, m_cellSize, iter)
           ht == HeightThreshold(iter, ws, IF iter = 0 THEN 0 ELSE wsvec[iter], m_slope,
                                 m_cellSize, m_initialDistance, m_maxDistance)
       IN /\ wsvec' = Append(wsvec, ws)
          /\ htvec' = Append(htvec, ht)
          /\ ppc' = IF ws < m_maxWindowSize THEN "precompute" ELSE "open"
    /\ UNCHANGED <<pmfArgs, m_ignored, m_lastOnly, table, ignoredView, nonlastView,
                   lastView, outView, rows, cols, minx, miny, ZImin, groundIdx, j_iter,
                   dropped, pmfHist>>

(* one iteration of the progressive loop *)
pmfOpen ==
    /\ UNCHANGED knnVars
    /\ ppc = "open"
    /\ j_iter < Len(wsvec)
    /\ LET iters == Iters(wsvec[j_iter + 1])
           me == erodeDiamond(ZImin, rows, cols, iters)
           mo == dilateDiamond(me, rows, cols, iters)
           cell(p) == LookupCell(table[p].X, minx, m_cellSize) * rows
                        + LookupCell(table[p].Y, miny, m_cellSize)
           groundNewIdx ==
               SelectSeq(Candidates(groundIdx, lastView),
                         LAMBDA p : BelowThreshold(table[p].Z, mo[cell(p)],
                                                   htvec[j_iter + 1]))
       IN /\ ZImin' = mo
          /\ groundIdx' = groundNewIdx
          /\ dropped' = Append(dropped, Range(groundIdx) \ Range(groundNewIdx))
          /\ mos' = Append(mos, mo)
    /\ j_iter' = j_iter + 1
    /\ UNCHANGED <<ppc, pmfArgs, m_ignored, m_lastOnly, table, ignoredView, nonlastView,
                   lastView, outView, rows, cols, minx, miny, wsvec, htvec, ZIraw,
                   ZIfill, kdQueries>>

(* the ground returns are labelled and the output view is put together *)
pmfFinish ==
    /\ UNCHANGED knnVars
    /\ ppc = "open"
    /\ j_iter = Len(wsvec)
    /\ table' = [i \in 1..Len(table) |->
                    IF i \in Range(groundIdx)
                    THEN [table[i] EXCEPT !.Classification = ClassGround]
                    ELSE table[i]]
    /\ outView' = ignoredView \o nonlastView \o lastView
    /\ ppc' = "done"
    /\ UNCHANGED <<pmfArgs, m_ignored, m_lastOnly, ignoredView, nonlastView, lastView,
                   rows, cols, minx, miny, ZImin, groundIdx, wsvec, htvec, j_iter,
                   dropped, pmfHist>>

NextPMF == pmfPrepared \/ pmfRunEmpty \/ pmfRun \/ pmfPrecompute \/ pmfOpen \/ pmfFinish

SpecPMF == InitPMF /\ [][NextPMF]_vars

-----------------------------------------------------------------------------
(* Properties of PMFFilter *)

(* C7: a cell size <= 0 is refused at setup: run() is not entered, so *)
(* no point is classified and no grid is sized                        *)
C7_CellSizeRejected ==
    m_cellSize <= 0 =>
        /\ ppc \in {"idle", "constructed", "error"}
        /\ table = tableIn

(* C8: every point held aside by `ignore` and every point that is not a *)
(* last return is in the output with all its field values as in the     *)
(* input                                                                *)
C8_PassThrough ==
    (ppc = "done" /\ Len(tableIn) > 0) =>
        \A p \in Range(ignoredView) \cup Range(nonlastView) :
            /\ p \in Range(outView)
            /\ table[p] = tableIn[p]

EverDropped == UNION Range(dropped)

(* C9: the candidate set starts as all participating points, loses the   *)
(* points an iteration drops and never regains one; no dropped point is *)
(* labelled ground                                                      *)
C9_CandidatesShrink ==
    /\ (ppc = "precompute" \/ (ppc = "open" /\ j_iter = 0)) => groundIdx = lastView
    /\ ppc \in {"precompute", "open", "done"} =>
          /\ Range(groundIdx) = Range(lastView) \ EverDropped
          /\ \A i, k \in 1..Len(dropped) : i < k => dropped[i] \cap dropped[k] = {}
          /\ Len(dropped) = j_iter
    /\ ppc = "done" =>
          \A p \in EverDropped : table[p].Classification # ClassGround

(* a point survived the first iteration and was dropped by a later one, *)
(* another point is ground                                              *)
C9_Witness ==
    /\ ppc = "done"
    /\ Len(dropped) >= 2
    /\ dropped[1] = {}
    /\ EverDropped # {}
    /\ groundIdx # <<>>
    /\ \A p \in EverDropped : table[p].Classification = ClassUnclassified
    /\ \A p \in Range(groundIdx) : table[p].Classification = ClassGround

(* C10: the window sizes grow strictly, the thresholds never fall and *)
(* none exceeds max_distance                                          *)
C10_ScaleSequenceMonotone ==
    /\ \A i \in 1..(Len(wsvec) - 1) :
          /\ wsvec[i] < wsvec[i + 1]
          /\ htvec[i] <= htvec[i + 1]
    /\ \A i \in 1..Len(htvec) : htvec[i] <= m_maxDistance * Unit * Unit

DefaultThresholds ==
    /\ m_cellSize = DefaultCellSize
    /\ m_initialDistance = DefaultInitialDistance
    /\ m_maxDistance = DefaultMaxDistance
    /\ m_slope = DefaultSlope

Participating == Range(lastView)

Entered == ppc \in {"precompute", "open", "done", "crashed", "hung"}

(* C11: with a cell size of 1 and the default thresholds, a non-empty set *)
(* of participating points that all have the same elevation is labelled   *)
(* ground, every point of it, and the run does not fail                   *)
C11_FlatAllGround ==
    (/\ Entered
     /\ DefaultThresholds
     /\ Participating # {}
     /\ \A p, q \in Participating : tableIn[p].Z = tableIn[q].Z)
    => /\ ppc \notin {"crashed", "hung"}
       /\ ppc = "done" =>
             \A p \in Participating : table[p].Classification = ClassGround

(* a flat 2 x 2 grid with a gap, after all five iterations *)
C11_Witness ==
    /\ ppc = "done"
    /\ DefaultThresholds
    /\ Len(lastView) >= 3
    /\ rows >= 2 /\ cols >= 2
    /\ kdQueries > 0
    /\ Len(wsvec) = 5
    /\ \A p, q \in Participating : tableIn[p].Z = tableIn[q].Z
    /\ \A p \in Participating : table[p].Classification = ClassGround

Raised(p) ==
    /\ p \in Participating
    /\ Participating # {p}
    /\ \A q \in Participating \ {p} : tableIn[p].Z = tableIn[q].Z + RaisedBy
    /\ \A q, r \in Participating \ {p} : tableIn[q].Z = tableIn[r].Z

(* C12: with a cell size of 1, the default thresholds and the default    *)
(* maximum window size, a plane of participating points with one point   *)
(* raised 10 units ends with the raised point non-ground (1) and every   *)
(* other point ground (2), wherever the raised point lies                *)
C12_OutlierRejected ==
    \A p \in Participating :
        (/\ Entered
         /\ DefaultThresholds
         /\ m_maxWindowSize = DefaultMaxWindowSize
         /\ Raised(p))
        => /\ ppc \notin {"crashed", "hung"}
           /\ ppc = "done" =>
                 /\ table[p].Classification = ClassUnclassified
                 /\ \A q \in Participating \ {p} : table[q].Classification = ClassGround

(* the raised point in the interior cell of a 3 x 3 grid *)
C12_Witness ==
    /\ ppc = "done"
    /\ DefaultThresholds
    /\ m_maxWindowSize = DefaultMaxWindowSize
    /\ rows = 3 /\ cols = 3
    /\ \E p \in Participating :
          /\ Raised(p)
          /\ tableIn[p].X = minx + Unit /\ tableIn[p].Y = miny + Unit
          /\ table[p].Classification = ClassUnclassified
          /\ \A q \in Participating \ {p} : table[q].Classification = ClassGround

(* C14: the loop that computes the scale sequence ends: some iteration  *)
(* yet to come yields a window size >= max_window_size, and the finished *)
(* sequence stops at the first such window                               *)
C14_PrecomputeTerminates ==
    /\ ppc = "precompute" =>
          \E n \in Len(wsvec)..(MaxIters - 1) :
              WindowSize(m_exponential, m_cellSize, n) >= m_maxWindowSize
    /\ (ppc \in {"open", "done"} /\ wsvec # <<>>) =>
          /\ \A i \in 1..(Len(wsvec) - 1) : wsvec[i] < m_maxWindowSize
          /\ wsvec[Len(wsvec)] >= m_maxWindowSize

GapFilled == ppc \in {"precompute", "open", "done"} /\ lastView # <<>>

Populated == {i \in DOMAIN ZIraw : ~isnan(ZIraw[i])}

(* C15: with at least one participating point, after the gap fill no   *)
(* cell is NaN, a populated cell keeps its minimum, an empty cell holds *)
(* the elevation of a populated cell whose centre is nearest, and a    *)
(* surface without empty cells is left as it is without a query        *)
C15_GapFillDense ==
    GapFilled =>
        /\ DOMAIN ZIraw = 0..(rows * cols - 1)
        /\ DOMAIN ZIfill = DOMAIN ZIraw
        /\ Populated # {}
        /\ \A i \in DOMAIN ZIfill : ~isnan(ZIfill[i])
        /\ \A i \in Populated : ZIfill[i] = ZIraw[i]
        /\ \A i \in DOMAIN ZIraw \ Populated :
              \E n \in Populated :
                 /\ ZIfill[i] = ZIraw[n]
                 /\ \A m \in Populated : CellDist2(i, n, rows) <= CellDist2(i, m, rows)
        /\ kdQueries = Cardinality(DOMAIN ZIraw \ Populated)
        /\ Populated = DOMAIN ZIraw => (kdQueries = 0 /\ ZIfill = ZIraw)

(* an empty cell between populated cells of different elevations *)
C15_Witness ==
    /\ GapFilled
    /\ kdQueries > 0
    /\ \E i \in DOMAIN ZIraw \ Populated, n, m \in Populated :
          /\ ZIraw[n] # ZIraw[m]
          /\ ZIfill[i] = ZIraw[n]
          /\ CellDist2(i, n, rows) < CellDist2(i, m, rows)

(* the surface iteration j (1-based) starts from: the opened surface of *)
(* iteration j - 1, the gap-filled surface for the first                *)
SurfaceBefore(j) == IF j = 1 THEN ZIfill ELSE mos[j - 1]

OpenedFrom(surface, j) ==
    LET iters == Iters(wsvec[j])
        me == erodeDiamond(surface, rows, cols, iters)
    IN dilateDiamond(me, rows, cols, iters)

PointCell(p) ==
    LookupCell(tableIn[p].X, minx, m_cellSize) * rows
        + LookupCell(tableIn[p].Y, miny, m_cellSize)

PassesAll(p) ==
    \A j \in 1..Len(wsvec) :
        BelowThreshold(tableIn[p].Z, mos[j][PointCell(p)], htvec[j])

(* C16: after run() a participating point is ground (2) exactly if it  *)
(* passed the height test of every iteration, each against the surface *)
(* opened from the previous iteration's opened surface; every other    *)
(* participating point is non-ground (1)                               *)
C16_GroundIffPassedAll ==
    (ppc = "done" /\ lastView # <<>>) =>
        /\ Len(mos) = Len(wsvec)
        /\ \A j \in 1..Len(wsvec) : mos[j] = OpenedFrom(SurfaceBefore(j), j)
        /\ \A p \in Participating :
              table[p].Classification =
                  IF PassesAll(p) THEN ClassGround ELSE ClassUnclassified

(* a point that passes the first iteration and fails a later one, next *)
(* to a point that passes all                                          *)
C16_Witness ==
    /\ ppc = "done"
    /\ Len(wsvec) >= 2
    /\ \E p, q \in Participating :
          /\ PassesAll(p)
          /\ table[p].Classification = ClassGround
          /\ BelowThreshold(tableIn[q].Z, mos[1][PointCell(q)], htvec[1])
          /\ ~PassesAll(q)
          /\ table[q].Classification = ClassUnclassified

(* C17: for a cell size > 0 the cell a participating point is binned *)
(* into is the cell its opened-surface value is read from, and that   *)
(* cell lies inside the rows x cols grid                              *)
C17_CellMappingConsistent ==
    (GapFilled /\ m_cellSize > 0) =>
        \A p \in Participating :
            LET bc == BinCell(tableIn[p].X, minx, m_cellSize)
                br == BinCell(tableIn[p].Y, miny, m_cellSize)
                lc == LookupCell(tableIn[p].X, minx, m_cellSize)
                lr == LookupCell(tableIn[p].Y, miny, m_cellSize)
            IN /\ bc = lc /\ br = lr
               /\ lc \in 0..(cols - 1) /\ lr \in 0..(rows - 1)

-----------------------------------------------------------------------------
(* Properties of KNNAssignFilter run on successive inputs *)

(* C13: over the life of one instance the candidate file is loaded at   *)
(* most once, the load and the index are complete before the first      *)
(* point is processed, and nothing is loaded without a candidate file   *)
C13_LoadAtMostOnce ==
    /\ loads <= 1
    /\ m_candidateFile = "" => loads = 0
    /\ (m_candidateFile # "" /\ pc = "filtering") =>
          /\ loads >= 1
          /\ candView = candLoaded
          /\ kdi \in Indexes(candView, view, m_k)

====
